---------------------------- MODULE Spec2Model ----------------------------
(***************************************************************************)
(* A model of MySNA/MySNA.py: degree extremes, top-N centrality rankings,  *)
(* community regrouping, community lookup and influencer detection over a  *)
(* caller-owned undirected graph whose node attributes the functions       *)
(* annotate in place.                                                      *)
(*                                                                         *)
(* A graph is a record [nodes, edges, attr]:                               *)
(*   nodes : the nodes in the graph's iteration order (a sequence),        *)
(*   edges : a set of sets {u, v} (a self-loop is {u}),                    *)
(*   attr  : the store of node-attribute dicts, one per node of the root   *)
(*           graph.  A subgraph view carries the root's store, which is    *)
(*           how the model states that a view shares the attribute dicts   *)
(*           of the graph it was taken from.                               *)
(* A dict is the sequence of its <<key, value>> items in insertion order.  *)
(* A centrality score is a rational <<numerator, denominator>>.            *)
(* A call's outcome is Val(v) or Err(e).                                   *)
(***************************************************************************)
EXTENDS Integers, Sequences, FiniteSets, TLC

VARIABLES G, result, left

vars == <<G, result, left>>

\* ------------------------------------------------------------------ bounds
MaxNodes == 2
MaxDegNodes == 4
MaxOnceNodes == 4
MaxCalls == 2
MaxScore == 1
MaxGroup == 6

\* A request for the top two in place of the top three.
TwoInfluencers == 3 - 1

\* The literal 3 of the top-3 betweenness and top-3 closeness requests.
TopInfluencers == 3

\* ----------------------------------------------------------------- helpers
Val(v) == [kind |-> "value", value |-> v]
Err(e) == [kind |-> "error", error |-> e]
None == "None"

Range(s) == {s[i] : i \in DOMAIN s}
Keys(d) == {d[i][1] : i \in DOMAIN d}
Lookup(d, k) == d[CHOOSE i \in DOMAIN d : d[i][1] = k][2]
Index(s, x) == CHOOSE i \in DOMAIN s : s[i] = x

RECURSIVE Gcd(_, _)
Gcd(a, b) == IF b = 0 THEN a ELSE Gcd(b, a % b)

Rat(n, d) == IF n = 0 THEN <<0, 1>> ELSE <<n \div Gcd(n, d), d \div Gcd(n, d)>>
RatAdd(a, b) == Rat(a[1] * b[2] + b[1] * a[2], a[2] * b[2])
RatLess(a, b) == a[1] * b[2] < b[1] * a[2]
RatLeq(a, b) == a[1] * b[2] <= b[1] * a[2]

RECURSIVE RatSum(_, _)
RatSum(f, S) ==
  IF S = {} THEN <<0, 1>>
  ELSE LET x == CHOOSE x \in S : TRUE
       IN  RatAdd(f[x], RatSum(f, S \ {x}))

RECURSIVE IntSum(_, _)
IntSum(f, S) ==
  IF S = {} THEN 0
  ELSE LET x == CHOOSE x \in S : TRUE
       IN  f[x] + IntSum(f, S \ {x})

\* ---------------------------------------------------- the graph library
\* G.nodes as a set; len(G).
NodeSet(g) == Range(g.nodes)

\* The neighbours of v other than v itself.
Adj(g, v) == {u \in NodeSet(g) : u # v /\ {u, v} \in g.edges}

\* G.degree(v): a self-loop counts twice.
degree(g, v) == Cardinality(Adj(g, v)) + (IF {v} \in g.edges THEN 2 ELSE 0)

\* G.subgraph(nodes): a view on the nodes of `ns` that are in g, in g's order,
\* with the edges between them, reading and writing g's attribute dicts.
subgraph(g, ns) ==
  LET keep == NodeSet(g) \cap ns
  IN  [nodes |-> SelectSeq(g.nodes, LAMBDA x : x \in keep),
       edges |-> {e \in g.edges : e \subseteq keep},
       attr  |-> g.attr]

\* The loop of nx.set_node_attributes over values.items()[i ..]:
\* G.nodes[key][name] = value for a key that is a node of G, and a key that is
\* not (the view's KeyError) is skipped.
RECURSIVE set_loop(_, _, _, _, _)
set_loop(attr, nodeset, values, i, name) ==
  IF i > Len(values) THEN attr
  ELSE LET key == values[i][1]
       IN  set_loop(IF key \in nodeset
                    THEN (key :> ((name :> values[i][2]) @@ attr[key])) @@ attr
                    ELSE attr,
                    nodeset, values, i + 1, name)

\* nx.set_node_attributes(G, values, name).
set_node_attributes(g, values, name) ==
  [nodes |-> g.nodes, edges |-> g.edges,
   attr |-> set_loop(g.attr, NodeSet(g), values, 1, name)]

\* A view taken for the graph itself: the caller's graph would lose the nodes
\* and edges outside the view.
through_view(root, view) == view

\* The graph a view was taken from, after calls that annotated the view: the
\* attribute dicts are the same objects, topology is the root's own.
through(root, view) == [nodes |-> root.nodes, edges |-> root.edges, attr |-> view.attr]

\* The dict {v: value[v] for v in order}.
dict_of(order, value) ==
  LET RECURSIVE fill(_, _)
      fill(i, d) == IF i > Len(order) THEN d
                    ELSE fill(i + 1, Append(d, <<order[i], value[order[i]]>>))
  IN  fill(1, <<>>)

\* Breadth-first search from s, as both centrality routines run it: the
\* layers of nodes at distance 0, 1, 2, ... of s, and for every node reached
\* the number sigma of shortest paths from s to it.
RECURSIVE bfs(_, _, _, _)
bfs(g, layers, seen, sigma) ==
  LET frontier == layers[Len(layers)]
      nxt == {v \in NodeSet(g) \ seen : \E u \in frontier : {u, v} \in g.edges}
      count(v) == LET pred == {u \in frontier : {u, v} \in g.edges}
                  IN  IntSum(sigma, pred)
  IN  IF nxt = {} THEN [layers |-> layers, sigma |-> sigma]
      ELSE bfs(g, Append(layers, nxt), seen \cup nxt,
               [v \in nxt |-> count(v)] @@ sigma)

shortest_paths(g, s) == bfs(g, <<{s}>>, {s}, (s :> 1))

\* Brandes' accumulation for one source: delta[v], the sum over targets t of
\* sigma_st(v) / sigma_st, from the farthest layer k back to the source.
RECURSIVE accumulate(_, _, _, _)
accumulate(g, sp, k, delta) ==
  IF k < 2 THEN delta
  ELSE LET share(v) ==
             LET succ == {w \in sp.layers[k] : {v, w} \in g.edges}
             IN  RatSum([w \in succ |->
                           LET d == RatAdd(<<1, 1>>, delta[w])
                           IN  Rat(sp.sigma[v] * d[1], sp.sigma[w] * d[2])],
                        succ)
       IN  accumulate(g, sp, k - 1,
                      [v \in sp.layers[k - 1] |-> share(v)] @@ delta)

dependencies(g, s) ==
  LET sp == shortest_paths(g, s)
      last == sp.layers[Len(sp.layers)]
  IN  accumulate(g, sp, Len(sp.layers), [w \in last |-> <<0, 1>>])

\* nx.betweenness_centrality(G), normalized: the dict, in G's node order, of
\* the sum over ordered pairs (s, t) of sigma_st(v) / sigma_st, scaled by
\* 1 / ((n - 1)(n - 2)) when n > 2.
betweenness_centrality(g) ==
  LET n == Len(g.nodes)
      delta == [s \in NodeSet(g) |-> dependencies(g, s)] @@ <<>>
      raw(v) == LET from == {s \in NodeSet(g) \ {v} : v \in DOMAIN delta[s]}
                IN  RatSum([s \in from |-> delta[s][v]], from)
      scaled(v) == IF n > 2 THEN Rat(raw(v)[1], raw(v)[2] * (n - 1) * (n - 2))
                   ELSE raw(v)
  IN  dict_of(g.nodes, [v \in NodeSet(g) |-> scaled(v)])

\* nx.closeness_centrality(G), Wasserman-Faust improved: with r nodes
\* reachable from v (v included) at total distance tot,
\* ((r - 1) / tot) * ((r - 1) / (n - 1)), and 0 when tot = 0 or n <= 1.
closeness_centrality(g) ==
  LET n == Len(g.nodes)
      score(v) ==
        LET layers == shortest_paths(g, v).layers
            tot == IntSum([k \in DOMAIN layers |-> (k - 1) * Cardinality(layers[k])],
                          DOMAIN layers)
            r == IntSum([k \in DOMAIN layers |-> Cardinality(layers[k])],
                        DOMAIN layers)
        IN  IF tot > 0 /\ n > 1
            THEN Rat((r - 1) * (r - 1), tot * (n - 1))
            ELSE <<0, 1>>
  IN  dict_of(g.nodes, [v \in NodeSet(g) |-> score(v)])

\* ------------------------------------------------------ Python built-ins
\* A maximum that keeps the last of several largest elements.
RECURSIVE max_by_last(_, _, _, _)
max_by_last(g, s, i, best) ==
  IF i > Len(s) THEN best
  ELSE max_by_last(g, s, i + 1,
                   IF degree(g, s[i]) >= degree(g, best) THEN s[i] ELSE best)

\* max(iterable, key): the first element with the largest key.
RECURSIVE max_by(_, _, _, _)
max_by(g, s, i, best) ==
  IF i > Len(s) THEN best
  ELSE max_by(g, s, i + 1,
              IF degree(g, s[i]) > degree(g, best) THEN s[i] ELSE best)

\* min(iterable, key): the first element with the smallest key.
RECURSIVE min_by(_, _, _, _)
min_by(g, s, i, best) ==
  IF i > Len(s) THEN best
  ELSE min_by(g, s, i + 1,
              IF degree(g, s[i]) < degree(g, best) THEN s[i] ELSE best)

\* Inserts item x into the descending list `out` behind every item whose score
\* is >= its own: equal scores keep their input order.
insert_desc(out, x) ==
  LET ahead == {i \in DOMAIN out : \A j \in 1..i : RatLeq(x[2], out[j][2])}
      k == Cardinality(ahead)
  IN  SubSeq(out, 1, k) \o <<x>> \o SubSeq(out, k + 1, Len(out))

\* The items left in the order of the dict.
unsorted(items) == items

\* sorted(d.items(), key=itemgetter(1), reverse=True): descending by score,
\* stable.
RECURSIVE sorted_reverse(_)
sorted_reverse(items) ==
  IF items = <<>> THEN <<>>
  ELSE insert_desc(sorted_reverse(SubSeq(items, 1, Len(items) - 1)),
                   items[Len(items)])

\* A cut that clamps n to one less than the length.
slice_clamped(s, n) ==
  LET stop == IF n >= 0 THEN (IF n < Len(s) THEN n ELSE Len(s) - 1)
              ELSE (IF Len(s) + n > 0 THEN Len(s) + n ELSE 0)
  IN  SubSeq(s, 1, stop)

\* s[:n]: the first n items; for n < 0 all but the last -n; never an error.
slice_to(s, n) ==
  LET stop == IF n >= 0 THEN (IF n < Len(s) THEN n ELSE Len(s))
              ELSE (IF Len(s) + n > 0 THEN Len(s) + n ELSE 0)
  IN  SubSeq(s, 1, stop)


\* ------------------------------------------------------------ MySNA.py
\* node_with_max_degree(G): max() of an empty graph raises ValueError.
node_with_max_degree(g) ==
  IF g.nodes = <<>> THEN [G |-> g, ret |-> Err("ValueError")]
  ELSE LET highest_degree_node == max_by(g, g.nodes, 2, g.nodes[1])
       IN  [G |-> g,
            ret |-> Val(<<highest_degree_node, degree(g, highest_degree_node)>>)]

\* node_with_min_degree(G).
node_with_min_degree(g) ==
  IF g.nodes = <<>> THEN [G |-> g, ret |-> Err("ValueError")]
  ELSE LET lowest_degree_node == min_by(g, g.nodes, 2, g.nodes[1])
       IN  [G |-> g,
            ret |-> Val(<<lowest_degree_node, degree(g, lowest_degree_node)>>)]

\* [tup[0] for tup in sorted(d.items(), key=itemgetter(1), reverse=True)][:n]
top_n_of(d, n) ==
  LET sorted_items == sorted_reverse(d)
  IN  slice_to([i \in DOMAIN sorted_items |-> sorted_items[i][1]], n)

\* The body the three get_first_n_highest_*_nodes functions share: annotate
\* the nodes with the library's dict `d` under `name`, sort, cut to n.
first_n_highest(g, n, d, name) ==
  [G |-> set_node_attributes(g, d, name), ret |-> Val(top_n_of(d, n))]

get_first_n_highest_betweenness_nodes(g, n) ==
  first_n_highest(g, n, betweenness_centrality(g), "betweenness")

get_first_n_highest_closeness_nodes(g, n) ==
  first_n_highest(g, n, closeness_centrality(g), "closeness")

\* nx.eigenvector_centrality_numpy is an eigen-solver whose scores are not
\* rational: `ev` is what the library did, Err(..) or Val(dict in G's order).
get_first_n_highest_eigenvector_nodes(g, n, ev) ==
  IF ev.kind = "error" THEN [G |-> g, ret |-> ev]
  ELSE first_n_highest(g, n, ev.value, "eigenvector")

\* The nodes of g, in order, whose 'community' attribute is i.
selected_data(g, i) ==
  SelectSeq(g.nodes, LAMBDA x : g.attr[x]["community"] = i)

\* The loop of find_communities over i = lo .. hi, building dict_com; the
\* [0] of an empty selection raises IndexError.
RECURSIVE group_loop(_, _, _, _)
group_loop(g, i, hi, dict_com) ==
  IF i > hi THEN Val(dict_com)
  ELSE IF selected_data(g, i) = <<>> THEN Err("IndexError")
  ELSE group_loop(g, i + 1, hi,
                  dict_com \o <<<<g.attr[selected_data(g, i)[1]]["community"],
                                  selected_data(g, i)>>>>)

\* The grouping loop run over range(0, max) in place of range(0, max + 1).
find_communities_short(g, partition) ==
  LET g1 == set_node_attributes(g, partition, "community")
      ids == {partition[i][2] : i \in DOMAIN partition}
  IN  IF ids = {} THEN [G |-> g1, ret |-> Err("ValueError")]
      ELSE [G |-> g1,
            ret |-> group_loop(g1, 0,
                               (CHOOSE m \in ids : \A x \in ids : x <= m) - 1,
                               <<>>)]

\* find_communities(G), `partition` being what best_partition(G) returned (a
\* dict node -> community id, in G's order).
find_communities(g, partition) ==
  LET g1 == set_node_attributes(g, partition, "community")
      ids == {partition[i][2] : i \in DOMAIN partition}
  IN  IF ids = {} THEN [G |-> g1, ret |-> Err("ValueError")]
      ELSE [G |-> g1,
            ret |-> group_loop(g1, 0, CHOOSE m \in ids : \A x \in ids : x <= m,
                               <<>>)]

\* A lookup that compares the node with the community ids.
community_with_node_by_key(g, node, partition) ==
  LET fc == find_communities(g, partition)
  IN  IF fc.ret.kind = "error" THEN fc
      ELSE LET communities == fc.ret.value
               matching == SelectSeq(communities, LAMBDA kv : kv[1] = node)
           IN  IF matching = <<>> THEN [G |-> fc.G, ret |-> Err("IndexError")]
               ELSE [G |-> fc.G, ret |-> Val(matching[1][2])]

\* A lookup that rejects a node that is not in G before it computes anything.
community_with_node_checked(g, node, partition) ==
  IF node \notin NodeSet(g) THEN [G |-> g, ret |-> Err("IndexError")]
  ELSE LET fc == find_communities(g, partition)
       IN  IF fc.ret.kind = "error" THEN fc
           ELSE LET communities == fc.ret.value
                    matching == SelectSeq(communities,
                                          LAMBDA kv : node \in Range(kv[2]))
                IN  IF matching = <<>> THEN [G |-> fc.G, ret |-> Err("IndexError")]
                    ELSE [G |-> fc.G, ret |-> Val(matching[1][2])]

\* community_with_node(G, node).
community_with_node(g, node, partition) ==
  LET fc == find_communities(g, partition)
  IN  IF fc.ret.kind = "error" THEN fc
      ELSE LET communities == fc.ret.value
               matching == SelectSeq(communities, LAMBDA kv : node \in Range(kv[2]))
           IN  IF matching = <<>> THEN [G |-> fc.G, ret |-> Err("IndexError")]
               ELSE [G |-> fc.G, ret |-> Val(matching[1][2])]

\* The nodes in either list.
either_top(top_betweenness, top_closeness) ==
  Range(top_betweenness) \cup Range(top_closeness)

\* list(set(top_betweenness) & set(top_closeness)): the order of the list is
\* the set's, so the list is modelled by the set of its elements.
top_influencers(top_betweenness, top_closeness) ==
  Range(top_betweenness) \cap Range(top_closeness)

\* The top-3 / top-3 / intersect step on the community `nodes` of g, bd and cd
\* being the dicts the two centrality routines return for the view sg: sg is
\* annotated twice, which annotates g.
influencer_step_with(g, nodes, bd, cd) ==
  LET sg == subgraph(g, Range(nodes))
      b == first_n_highest(sg, TopInfluencers, bd, "betweenness")
      c == first_n_highest(b.G, TopInfluencers, cd, "closeness")
  IN  [G |-> through(g, c.G),
       sg |-> c.G,
       influencers |-> top_influencers(b.ret.value, c.ret.value)]

\* The step with both centralities computed on G in place of the view.
influencer_step_on_G(g, nodes) ==
  influencer_step_with(g, nodes, betweenness_centrality(g),
                       closeness_centrality(g))

\* The step as the code runs it, each dict computed on the view.
influencer_step(g, nodes) ==
  LET sg == subgraph(g, Range(nodes))
  IN  influencer_step_with(g, nodes, betweenness_centrality(sg),
                           closeness_centrality(sg))

\* The loop of find_community_influencers over communities[i ..].
RECURSIVE influencer_loop(_, _, _, _)
influencer_loop(g, communities, i, influencers) ==
  IF i > Len(communities) THEN [G |-> g, ret |-> Val(influencers)]
  ELSE LET step == influencer_step(g, communities[i][2])
       IN  influencer_loop(step.G, communities, i + 1,
                           influencers \o <<<<communities[i][1], step.influencers>>>>)

\* find_community_influencers(G).
find_community_influencers(g, partition) ==
  LET fc == find_communities(g, partition)
  IN  IF fc.ret.kind = "error" THEN fc
      ELSE influencer_loop(fc.G, fc.ret.value, 1, <<>>)

\* draw_communities(G): a layout, a partition that is not stored, a drawing;
\* nx.draw returns None.
draw_communities(g, partition) == [G |-> g, ret |-> Val(None)]

\* draw_community_influencers(G).
draw_community_influencers(g, partition) ==
  LET fci == find_community_influencers(g, partition)
  IN  IF fci.ret.kind = "error" THEN fci
      ELSE [G |-> fci.G, ret |-> Val(None)]

\* draw_community_with_node(G, node): the returned axes hold the drawing of
\* the community, modelled by its node colours.
draw_community_with_node(g, node, partition) ==
  LET cwn == community_with_node(g, node, partition)
  IN  IF cwn.ret.kind = "error" THEN cwn
      ELSE LET step == influencer_step(cwn.G, cwn.ret.value)
               sg == step.sg
               color_map == [i \in DOMAIN sg.nodes |->
                               <<sg.nodes[i],
                                 IF sg.nodes[i] \in step.influencers
                                 THEN "red" ELSE "green">>]
           IN  [G |-> step.G, ret |-> Val(color_map)]

\* Statement i of problemsolver, run on g: ev is the eigen-solver's outcome
\* on G, p1, p2, p3 the three partitions drawn by find_communities,
\* draw_communities and draw_community_influencers.
statement(g, i, ev, p1, p2, p3) ==
  CASE i = 1 -> node_with_max_degree(g)
    [] i = 2 -> node_with_min_degree(g)
    [] i = 3 -> get_first_n_highest_betweenness_nodes(g, 1)
    [] i = 4 -> get_first_n_highest_closeness_nodes(g, 1)
    [] i = 5 -> get_first_n_highest_eigenvector_nodes(g, 1, ev)
    [] i = 6 -> get_first_n_highest_betweenness_nodes(g, Len(g.nodes))
    [] i = 7 -> get_first_n_highest_closeness_nodes(g, Len(g.nodes))
    [] i = 8 -> get_first_n_highest_eigenvector_nodes(g, Len(g.nodes), ev)
    [] i = 9 -> find_communities(g, p1)
    [] i = 10 -> draw_communities(g, p2)
    [] i = 11 -> draw_community_influencers(g, p3)

\* The statements of problemsolver from the i-th on, each run on the graph
\* the one before left, stopping at the first that raises.
RECURSIVE problemsolver_from(_, _, _, _, _, _)
problemsolver_from(g, i, ev, p1, p2, p3) ==
  CHOOSE out \in {IF s.ret.kind = "error" THEN s
                  ELSE IF i = 11 THEN [G |-> s.G, ret |-> Val(None)]
                  ELSE problemsolver_from(s.G, i + 1, ev, p1, p2, p3) :
                  s \in {statement(g, i, ev, p1, p2, p3)}} : TRUE

\* problemsolver(G): prints its report and returns nothing.
problemsolver(g, ev, p1, p2, p3) == problemsolver_from(g, 1, ev, p1, p2, p3)


\* ------------------------------------------------------------- inputs
\* Iteration orders of the nodes 1..n: ascending and descending ids.
Orders(n) == {[i \in 1..n |-> i], [i \in 1..n |-> n + 1 - i]}

Links(n) == {{u, v} : u, v \in 1..n} \ {{u} : u \in 1..n}
Loops(n) == {{u} : u \in 1..n}

\* A graph as its caller built it: every node carries the caller's own
\* attribute 'label' and none of the four this code writes.
NewGraph(order, edges) ==
  [nodes |-> order, edges |-> edges,
   attr |-> [x \in Range(order) |-> [label |-> x]]]

\* Simple graphs of at most `most` nodes.
SimpleGraphs(most) ==
  UNION {{NewGraph(o, e) : o \in Orders(n), e \in SUBSET Links(n)} : n \in 0..most}

\* Graphs of at most `most` nodes, self-loops allowed.
LoopGraphs(most) ==
  UNION {{NewGraph(o, e) : o \in Orders(n), e \in SUBSET (Links(n) \cup Loops(n))}
         : n \in 0..most}

\* Dicts over the keys of `order`, in that order, with values in `values`.
DictsOver(order, values) ==
  {[i \in DOMAIN order |-> <<order[i], f[i]>>] : f \in [DOMAIN order -> values]}

\* The scores a routine whose arithmetic is not modelled may give a node.
Scores == {<<k, 1>> : k \in 0..MaxScore}

\* What community_louvain.best_partition(G) can return: a dict in G's order
\* whose ids are exactly 0 .. k-1 for some k (the library renumbers them).
BestPartitions(g) ==
  {p \in DictsOver(g.nodes, 0..(Len(g.nodes) - 1)) :
     LET ids == {p[i][2] : i \in DOMAIN p}
     IN  \A m \in ids : \A j \in 0..m : j \in ids}

\* What nx.eigenvector_centrality_numpy(G) can do: raise, or (on a graph with
\* nodes) return a dict in G's order.
EigenOutcomes(g) ==
  {Err("EigenSolverError")}
    \cup (IF g.nodes = <<>> THEN {}
          ELSE {Val(d) : d \in DictsOver(g.nodes, Scores)})

\* Requested list lengths: negative, zero, up to and past the node count.
Counts(g) == (-1)..(Len(g.nodes) + 1)

\* Nodes asked about: those of g and one that is not a node of g.
Asked(g) == 1..(Len(g.nodes) + 1)

\* ------------------------------------------------------------- the calls
Call(op, n, node, partition, ev, out) ==
  /\ left' = left - 1
  /\ G' = out.G
  /\ result' = [op |-> op, n |-> n, node |-> node, partition |-> partition,
                ev |-> ev, ret |-> out.ret]

NodeWithMaxDegree ==
  /\ left > 0
  /\ Call("node_with_max_degree", None, None, None, None, node_with_max_degree(G))

NodeWithMinDegree ==
  /\ left > 0
  /\ Call("node_with_min_degree", None, None, None, None, node_with_min_degree(G))

GetFirstNHighestBetweennessNodes ==
  /\ left > 0
  /\ \E n \in Counts(G) :
       Call("get_first_n_highest_betweenness_nodes", n, None, None, None,
            get_first_n_highest_betweenness_nodes(G, n))

GetFirstNHighestClosenessNodes ==
  /\ left > 0
  /\ \E n \in Counts(G) :
       Call("get_first_n_highest_closeness_nodes", n, None, None, None,
            get_first_n_highest_closeness_nodes(G, n))

GetFirstNHighestEigenvectorNodes ==
  /\ left > 0
  /\ \E n \in Counts(G), ev \in EigenOutcomes(G) :
       Call("get_first_n_highest_eigenvector_nodes", n, None, None, ev,
            get_first_n_highest_eigenvector_nodes(G, n, ev))

FindCommunities ==
  /\ left > 0
  /\ \E p \in BestPartitions(G) :
       Call("find_communities", None, None, p, None, find_communities(G, p))

CommunityWithNode ==
  /\ left > 0
  /\ \E x \in Asked(G), p \in BestPartitions(G) :
       Call("community_with_node", None, x, p, None, community_with_node(G, x, p))

DrawCommunities ==
  /\ left > 0
  /\ \E p \in BestPartitions(G) :
       Call("draw_communities", None, None, p, None, draw_communities(G, p))

FindCommunityInfluencers ==
  /\ left > 0
  /\ \E p \in BestPartitions(G) :
       Call("find_community_influencers", None, None, p, None,
            find_community_influencers(G, p))

DrawCommunityInfluencers ==
  /\ left > 0
  /\ \E p \in BestPartitions(G) :
       Call("draw_community_influencers", None, None, p, None,
            draw_community_influencers(G, p))

DrawCommunityWithNode ==
  /\ left > 0
  /\ \E x \in Asked(G), p \in BestPartitions(G) :
       Call("draw_community_with_node", None, x, p, None,
            draw_community_with_node(G, x, p))

\* The partitions drawn for problemsolver's find_communities and
\* draw_communities calls: the first is overwritten by the third before the
\* call ends and the second is stored nowhere, so the model draws them from
\* the two extreme partitions only (one community, one community per node).
EarlyDraws(g) ==
  {p \in BestPartitions(g) :
     \/ \A i \in DOMAIN p : p[i][2] = 0
     \/ \A i, j \in DOMAIN p : i # j => p[i][2] # p[j][2]}

Problemsolver ==
  /\ left > 0
  /\ \E ev \in EigenOutcomes(G), p1 \in EarlyDraws(G), p3 \in BestPartitions(G) :
       Call("problemsolver", None, None, p3, ev, problemsolver(G, ev, p1, p1, p3))

NoCall == [op |-> "none", n |-> None, node |-> None, partition |-> None,
           ev |-> None, ret |-> Val(None)]

Init ==
  /\ G \in SimpleGraphs(MaxNodes)
  /\ result = NoCall
  /\ left = MaxCalls

Next ==
  \/ NodeWithMaxDegree
  \/ NodeWithMinDegree
  \/ GetFirstNHighestBetweennessNodes
  \/ GetFirstNHighestClosenessNodes
  \/ GetFirstNHighestEigenvectorNodes
  \/ FindCommunities
  \/ CommunityWithNode
  \/ DrawCommunities
  \/ FindCommunityInfluencers
  \/ DrawCommunityInfluencers
  \/ DrawCommunityWithNode
  \/ Problemsolver

Spec == Init /\ [][Next]_vars

\* One call, of any function but the report, on a graph of up to MaxOnceNodes
\* nodes.
InitOnce ==
  /\ G \in SimpleGraphs(MaxOnceNodes)
  /\ result = NoCall
  /\ left = 1

NextOnce ==
  \/ NodeWithMaxDegree
  \/ NodeWithMinDegree
  \/ GetFirstNHighestBetweennessNodes
  \/ GetFirstNHighestClosenessNodes
  \/ GetFirstNHighestEigenvectorNodes
  \/ FindCommunities
  \/ CommunityWithNode
  \/ DrawCommunities
  \/ FindCommunityInfluencers
  \/ DrawCommunityInfluencers
  \/ DrawCommunityWithNode

SpecOnce == InitOnce /\ [][NextOnce]_vars

\* One degree query on a graph of up to MaxDegNodes nodes, self-loops allowed.
InitDegree ==
  /\ G \in LoopGraphs(MaxDegNodes)
  /\ result = NoCall
  /\ left = 1

NextDegree ==
  \/ NodeWithMaxDegree
  \/ NodeWithMinDegree

SpecDegree == InitDegree /\ [][NextDegree]_vars

\* The influencer step on one community of up to MaxGroup nodes, for whatever
\* scores the two centrality routines may return for it.
InitGroup ==
  /\ G \in {NewGraph(o, {}) : o \in UNION {Orders(n) : n \in 1..MaxGroup}}
  /\ result = NoCall
  /\ left = 1

\* A node is scored high or low: which nodes make a top-3 depends only on
\* the order of the scores, and two levels already produce every pair of
\* top-3 sets.
TwoLevels == {<<0, 1>>, <<1, 1>>}

InfluencerStep ==
  /\ left > 0
  /\ \E bd \in DictsOver(G.nodes, TwoLevels), cd \in DictsOver(G.nodes, TwoLevels) :
       LET step == influencer_step_with(G, G.nodes, bd, cd)
       IN  Call("influencer_step", None, None, bd, cd,
                [G |-> step.G, ret |-> Val(step.influencers)])

NextGroup == InfluencerStep

SpecGroup == InitGroup /\ [][NextGroup]_vars


\* ------------------------------------------------------------ properties
N == Len(G.nodes)
Position(v) == Index(G.nodes, v)
Returned == result.ret.kind = "value"

TopNOps == {"get_first_n_highest_betweenness_nodes",
            "get_first_n_highest_closeness_nodes",
            "get_first_n_highest_eigenvector_nodes"}

\* The dict of scores the call in `result` ranked.
RankedScores ==
  IF result.op = "get_first_n_highest_betweenness_nodes" THEN betweenness_centrality(G)
  ELSE IF result.op = "get_first_n_highest_closeness_nodes" THEN closeness_centrality(G)
  ELSE result.ev.value

Score(v) == Lookup(RankedScores, v)

Distinct(list) == \A i, j \in DOMAIN list : i # j => list[i] # list[j]

NonIncreasing(list) ==
  \A i \in 1..(Len(list) - 1) : RatLeq(Score(list[i + 1]), Score(list[i]))

\* `list` is n distinct nodes in non-increasing score order that no node
\* outside the list outscores.
IsTopN(list, n) ==
  /\ Len(list) = n
  /\ Distinct(list)
  /\ Range(list) \subseteq NodeSet(G)
  /\ NonIncreasing(list)
  /\ \A v \in NodeSet(G) \ Range(list) :
       Len(list) > 0 => ~RatLess(Score(list[Len(list)]), Score(v))

\* The members, in a dict of scores, of the first three places of the stable
\* descending order: fewer than three keys score higher or score the same
\* from an earlier place.
FirstThree(d) ==
  LET place(v) == CHOOSE i \in DOMAIN d : d[i][1] = v
      ahead(u, v) == \/ RatLess(Lookup(d, v), Lookup(d, u))
                     \/ Lookup(d, u) = Lookup(d, v) /\ place(u) < place(v)
  IN  {v \in Keys(d) : Cardinality({u \in Keys(d) : ahead(u, v)}) < 3}

\* The nodes the partition p puts in the community of v.
Members(p, v) == {u \in Keys(p) : Lookup(p, u) = Lookup(p, v)}
Ids(p) == {p[i][2] : i \in DOMAIN p}

IsRing ==
  /\ G.nodes = <<1, 2, 3, 4>>
  /\ G.edges = {{1, 2}, {2, 3}, {3, 4}, {4, 1}}

\* C1: on a non-empty graph node_with_max_degree returns (v, deg v) for the
\* first node v in iteration order whose degree no node exceeds, and
\* node_with_min_degree (v, deg v) for the first node whose degree no node is
\* below; on the ring 1-2-3-4-1 both return degree 2.
C1_DegreeExtremes ==
  /\ (result.op = "node_with_max_degree" /\ N > 0) =>
       /\ Returned
       /\ LET v == result.ret.value[1]
          IN  /\ v \in NodeSet(G)
              /\ result.ret.value[2] = degree(G, v)
              /\ \A u \in NodeSet(G) : degree(G, u) <= degree(G, v)
              /\ \A i \in 1..(Position(v) - 1) : degree(G, G.nodes[i]) < degree(G, v)
  /\ (result.op = "node_with_min_degree" /\ N > 0) =>
       /\ Returned
       /\ LET v == result.ret.value[1]
          IN  /\ v \in NodeSet(G)
              /\ result.ret.value[2] = degree(G, v)
              /\ \A u \in NodeSet(G) : degree(G, u) >= degree(G, v)
              /\ \A i \in 1..(Position(v) - 1) : degree(G, G.nodes[i]) > degree(G, v)
  /\ (result.op \in {"node_with_max_degree", "node_with_min_degree"} /\ IsRing) =>
       result.ret = Val(<<1, 2>>)

\* A maximum-degree query answered with the first of several nodes of the
\* largest degree, which is not the node of the smallest id.
C1_Witness ==
  /\ result.op = "node_with_max_degree"
  /\ N = 4
  /\ Returned
  /\ result.ret.value[1] = G.nodes[1]
  /\ G.nodes[1] = 4
  /\ \E u \in NodeSet(G) : u # 4 /\ degree(G, u) = degree(G, 4)
  /\ \E u \in NodeSet(G) : degree(G, u) < degree(G, 4)

\* C2 as stated: for every n <= node count a top-N function that returns,
\* returns exactly n distinct nodes in non-increasing score order, none
\* outscored by a node left out.
C2_Original ==
  (result.op \in TopNOps /\ Returned /\ result.n <= N) =>
    IsTopN(result.ret.value, result.n)

\* C2 amended: for 0 <= n <= node count each top-N function (the eigenvector
\* one when the library's eigenvector routine returns its dict) returns
\* exactly n distinct nodes in non-increasing score order, none outscored by
\* a node left out.
C2_TopN ==
  (/\ result.op \in TopNOps
   /\ 0 <= result.n /\ result.n <= N
   /\ result.op = "get_first_n_highest_eigenvector_nodes" => result.ev.kind = "value")
  => /\ Returned
     /\ IsTopN(result.ret.value, result.n)

\* Two of four nodes returned, the second tied with a node left out.
C2_Witness ==
  /\ result.op \in TopNOps
  /\ Returned
  /\ N = 4
  /\ result.n = 2
  /\ Len(result.ret.value) = 2
  /\ Score(result.ret.value[1]) # Score(result.ret.value[2])
  /\ \E v \in NodeSet(G) \ Range(result.ret.value) :
       Score(v) = Score(result.ret.value[2])

\* C3: on a non-empty graph, for a partition with ids 0 .. k-1,
\* find_communities returns a dict whose keys are exactly 0 .. k-1, whose
\* lists are non-empty, hold every node of G exactly once between them, and
\* hold each node under the id the partition gave it.
C3_Partition ==
  (result.op = "find_communities" /\ N > 0) =>
    /\ Returned
    /\ LET d == result.ret.value
           p == result.partition
           k == Cardinality(Ids(p))
           places == UNION {{<<i, j>> : j \in DOMAIN d[i][2]} : i \in DOMAIN d}
       IN  /\ Len(d) = k
           /\ Keys(d) = 0..(k - 1)
           /\ \A i \in DOMAIN d : d[i][2] # <<>>
           /\ \A v \in NodeSet(G) :
                Cardinality({ij \in places : d[ij[1]][2][ij[2]] = v}) = 1
           /\ \A ij \in places :
                /\ d[ij[1]][2][ij[2]] \in NodeSet(G)
                /\ Lookup(p, d[ij[1]][2][ij[2]]) = d[ij[1]][1]

\* Four nodes regrouped into two communities of two, the first node of the
\* graph in community 1.
C3_Witness ==
  /\ result.op = "find_communities"
  /\ N = 4
  /\ Returned
  /\ Len(result.ret.value) = 2
  /\ Len(result.ret.value[1][2]) = 2
  /\ Lookup(result.partition, G.nodes[1]) = 1

\* C4: for a node x of G community_with_node returns a list that contains x
\* and is the group of x: the nodes, in G's order, the partition computed in
\* the call put with x.
C4_CommunityOfNode ==
  (result.op = "community_with_node" /\ result.node \in NodeSet(G)) =>
    /\ Returned
    /\ result.node \in Range(result.ret.value)
    /\ result.ret.value =
         SelectSeq(G.nodes, LAMBDA v : v \in Members(result.partition, result.node))

\* A node found in a community of two that it does not head and whose id is
\* not 0.
C4_Witness ==
  /\ result.op = "community_with_node"
  /\ result.node \in NodeSet(G)
  /\ Returned
  /\ Len(result.ret.value) = 2
  /\ result.ret.value[2] = result.node
  /\ Lookup(result.partition, result.node) = 1

\* C5: find_community_influencers returns one entry per community, each a
\* set (a list without duplicates) of at most 3 nodes of that community: the
\* nodes in both the top-3 betweenness and the top-3 closeness of the
\* subgraph the community induces.
C5_Influencers ==
  /\ (result.op = "find_community_influencers" /\ N > 0) => Returned
  /\ (result.op = "find_community_influencers" /\ Returned) =>
    /\ LET d == result.ret.value
           p == result.partition
       IN  /\ Len(d) = Cardinality(Ids(p))
           /\ Keys(d) = Ids(p)
           /\ \A i \in DOMAIN d :
                LET members == {v \in NodeSet(G) : Lookup(p, v) = d[i][1]}
                    sg == subgraph(G, members)
                IN  /\ Cardinality(d[i][2]) <= 3
                    /\ d[i][2] \subseteq members
                    /\ d[i][2] = FirstThree(betweenness_centrality(sg))
                                   \cap FirstThree(closeness_centrality(sg))

\* One community of four nodes whose two top-3 lists differ: two influencers.
C5_Witness ==
  /\ result.op = "find_community_influencers"
  /\ N = 4
  /\ Returned
  /\ Len(result.ret.value) = 1
  /\ Cardinality(result.ret.value[1][2]) = 2

AttributeNames == {"betweenness", "closeness", "eigenvector", "community"}

\* C6: no call changes the node set or the edge set of G, and of the node
\* attributes only 'betweenness', 'closeness', 'eigenvector' and 'community'
\* may appear or change; so the same holds of any sequence of calls.
C6_TopologyFrame ==
  [][/\ G'.nodes = G.nodes
     /\ G'.edges = G.edges
     /\ DOMAIN G'.attr = DOMAIN G.attr
     /\ \A x \in DOMAIN G.attr :
          \A name \in (DOMAIN G.attr[x] \cup DOMAIN G'.attr[x]) \ AttributeNames :
            /\ name \in DOMAIN G.attr[x]
            /\ name \in DOMAIN G'.attr[x]
            /\ G'.attr[x][name] = G.attr[x][name]]_vars

\* Two calls made on a graph with an edge, a node of which now carries all
\* four annotations beside its own attribute.
C6_Witness ==
  /\ left = 0
  /\ G.edges # {}
  /\ \E x \in NodeSet(G) : DOMAIN G.attr[x] = AttributeNames \cup {"label"}

\* C7 as stated: for n above the node count every top-N function returns,
\* without error, all the nodes once each in non-increasing score order.
C7_Original ==
  (result.op \in TopNOps /\ result.n > N) =>
    /\ Returned
    /\ Len(result.ret.value) = N
    /\ Range(result.ret.value) = NodeSet(G)
    /\ NonIncreasing(result.ret.value)

\* C7 amended: for n above the node count the betweenness and closeness
\* functions, and the eigenvector function when the library's eigenvector
\* routine returns its dict, return without error all the nodes of G once
\* each in non-increasing score order.
C7_Truncates ==
  (/\ result.op \in TopNOps
   /\ result.n > N
   /\ result.op = "get_first_n_highest_eigenvector_nodes" => result.ev.kind = "value")
  => /\ Returned
     /\ Len(result.ret.value) = N
     /\ Range(result.ret.value) = NodeSet(G)
     /\ NonIncreasing(result.ret.value)

\* Five nodes asked of a graph of four whose scores differ.
C7_Witness ==
  /\ result.op = "get_first_n_highest_betweenness_nodes"
  /\ N = 4
  /\ result.n = 5
  /\ Returned
  /\ Len(result.ret.value) = 4
  /\ Score(result.ret.value[1]) # Score(result.ret.value[4])

\* C8: on a non-empty graph community_with_node for a node that is not in G
\* ends in IndexError, and by then every node's 'community' attribute is the
\* id the partition of this call gave it.
C8_MissingNode ==
  (/\ result.op = "community_with_node"
   /\ N > 0
   /\ result.node \notin NodeSet(G))
  => /\ result.ret = Err("IndexError")
     /\ \A v \in NodeSet(G) :
          /\ "community" \in DOMAIN G.attr[v]
          /\ G.attr[v]["community"] = Lookup(result.partition, v)

\* The failed lookup as the second call on a graph of two nodes that it left
\* in two communities.
C8_Witness ==
  /\ result.op = "community_with_node"
  /\ left = 0
  /\ N = 2
  /\ result.node \notin NodeSet(G)
  /\ result.ret = Err("IndexError")
  /\ G.attr[G.nodes[1]]["community"] # G.attr[G.nodes[2]]["community"]

\* The betweenness or closeness of v in g, and in the subgraph of g induced
\* by the community the partition p gives v.
Whole(name, g, v) ==
  Lookup(IF name = "betweenness" THEN betweenness_centrality(g)
         ELSE closeness_centrality(g), v)
Within(name, g, p, v) == Whole(name, subgraph(g, Members(p, v)), v)

\* Whether the call recorded in r, made on g, computes attribute `name` of
\* node v.
Computes(r, g, v, name) ==
  CASE r.op = "get_first_n_highest_betweenness_nodes" -> name = "betweenness"
    [] r.op = "get_first_n_highest_closeness_nodes" -> name = "closeness"
    [] r.op = "get_first_n_highest_eigenvector_nodes" ->
         name = "eigenvector" /\ r.ev.kind = "value"
    [] r.op \in {"find_communities", "community_with_node"} -> name = "community"
    [] r.op \in {"find_community_influencers", "draw_community_influencers"} ->
         name \in {"community", "betweenness", "closeness"}
    [] r.op = "draw_community_with_node" ->
         \/ name = "community"
         \/ /\ name \in {"betweenness", "closeness"}
            /\ r.node \in NodeSet(g)
            /\ v \in Members(r.partition, r.node)
    [] r.op = "problemsolver" ->
         name \in {"betweenness", "closeness"} \/ r.ev.kind = "value"
    [] OTHER -> FALSE

\* The value that call writes.
Written(r, g, v, name) ==
  IF name = "community" THEN Lookup(r.partition, v)
  ELSE IF name = "eigenvector" THEN Lookup(r.ev.value, v)
  ELSE IF \/ r.op \in {"get_first_n_highest_betweenness_nodes",
                       "get_first_n_highest_closeness_nodes"}
          \/ r.op = "problemsolver" /\ r.ev.kind = "error"
       THEN Whole(name, g, v)
       ELSE Within(name, g, r.partition, v)

C10_SmallCommunities ==
  result.op = "influencer_step" =>
    /\ N <= 3 => result.ret.value = NodeSet(G)
    /\ N <= 5 => result.ret.value # {}
    /\ result.ret.value = {} => N >= 6

\* A community of five with a single influencer.
C10_Witness ==
  /\ result.op = "influencer_step"
  /\ N = 5
  /\ Cardinality(result.ret.value) = 1

=============================================================================
